---- MODULE Spec2Model ----
(***************************************************************************)
(* Expression-graph core of derivre (src/src/ast.rs): packed encoding of   *)
(* expression nodes, hash-consed construction, typed queries, the generic  *)
(* memoized graph map and the next-byte lattice.                           *)
(*                                                                         *)
(* A u32 is modelled as the pair <<hi, lo>> of its 16-bit halves, so that  *)
(* the full 32-bit range (u32::MAX, all-ones byte-set words) is kept.      *)
(***************************************************************************)
EXTENDS Integers, Sequences, FiniteSets, TLC

VARIABLES
    alphabet_size,  \* ExprSet.alphabet_size
    exprs,          \* ExprSet.exprs: the word store, entry i+1 holds identifier i
    pc,             \* "new" before ExprSet::new has run, then "ready" or "panicked"
    new_ids,        \* identifiers ExprSet::new obtained: <<id of &[], x1, .., x5>>
    made,           \* history: every <<node, identifier>> pair ExprSet::mk has returned
    last,           \* the most recent mk call: [node, id], or NoCall
    q,              \* results of the queries on last.id, or NoQuery
    m_pc,           \* position inside ExprSet::map: "idle", "loop", "done"
    m_arg,          \* arguments of the running map call
    todo,           \* map: the work-list
    cache,          \* map: the caller's cache, a function key -> value
    mapped,         \* map: the scratch buffer of children results
    log,            \* history: invocations of `process` during this call
    sched,          \* history: <<parent, child>> pushes onto todo during this call
    m_ret,          \* value returned by map, or NoValue
    calls,          \* number of map calls started
    nb              \* the last NextByte operation: [op, a, b, ab, ba], or NoNb

vars == <<alphabet_size, exprs, pc, new_ids, made, last, q,
          m_pc, m_arg, todo, cache, mapped, log, sched, m_ret, calls, nb>>

cons_vars == <<alphabet_size, exprs, pc, new_ids, made, last, q>>
map_vars == <<m_pc, m_arg, todo, cache, mapped, log, sched, m_ret, calls>>

-----------------------------------------------------------------------------
(* `let x = v; F(x)`: v is evaluated once and F applied to its value *)

let(v, F(_)) == CHOOSE out \in {F(x) : x \in {v}} : TRUE

-----------------------------------------------------------------------------
(* u32 arithmetic on <<hi, lo>> pairs *)

Half == 2^16

u32(n) == <<n \div Half, n % Half>>

U32_MAX == <<Half - 1, Half - 1>>

as_usize(w) == w[1] * Half + w[2]

as_u8(w) == w[2] % 256

\* bitwise and / or of two bytes
RECURSIVE And8(_, _)
And8(a, b) ==
    IF a = 0 \/ b = 0 THEN 0
    ELSE IF a = 255 THEN b
    ELSE IF b = 255 THEN a
    ELSE (a % 2) * (b % 2) + 2 * And8(a \div 2, b \div 2)

RECURSIVE Or8(_, _)
Or8(a, b) ==
    IF a = 0 THEN b
    ELSE IF b = 0 THEN a
    ELSE (IF a % 2 = 1 \/ b % 2 = 1 THEN 1 ELSE 0) + 2 * Or8(a \div 2, b \div 2)

And16(a, b) == And8(a % 256, b % 256) + 256 * And8(a \div 256, b \div 256)
Or16(a, b) == Or8(a % 256, b % 256) + 256 * Or8(a \div 256, b \div 256)

BitAnd32(a, b) == <<And16(a[1], b[1]), And16(a[2], b[2])>>
BitOr32(a, b) == <<Or16(a[1], b[1]), Or16(a[2], b[2])>>

\* !0xff
NotFF == <<Half - 1, Half - 256>>
LowFF == u32(255)

U32Less(a, b) == a[1] < b[1] \/ (a[1] = b[1] /\ a[2] < b[2])

-----------------------------------------------------------------------------
(* ExprRef *)

ExprRef(n) == u32(n)

INVALID == ExprRef(0)
EMPTY_STRING == ExprRef(1)
NO_MATCH == ExprRef(2)
ANY_BYTE == ExprRef(3)
ANY_BYTE_STRING == ExprRef(4)
NON_EMPTY_BYTE_STRING == ExprRef(5)

ExprRef_is_valid(id) == id # u32(0)

-----------------------------------------------------------------------------
(* ExprFlags *)

NULLABLE == u32(2^8)
POSITIVE == u32(2^9)
ZERO == u32(0)
POSITIVE_NULLABLE == BitOr32(POSITIVE, NULLABLE)

is_nullable(f) == BitAnd32(f, NULLABLE) # u32(0)
is_positive(f) == BitAnd32(f, POSITIVE) # u32(0)

\* variant: nullable is not coerced to positive
from_nullable_positive_nocoerce(nullable, positive) ==
    IF nullable THEN (IF positive THEN POSITIVE_NULLABLE ELSE NULLABLE)
    ELSE IF positive THEN POSITIVE ELSE ZERO

from_nullable_positive(nullable, positive) ==
    IF nullable THEN POSITIVE_NULLABLE
    ELSE IF positive THEN POSITIVE ELSE ZERO

-----------------------------------------------------------------------------
(* ExprTag *)

TagNames == <<"EmptyString", "NoMatch", "Byte", "ByteSet", "RemainderIs",
              "Lookahead", "Not", "Repeat", "Concat", "Or", "And">>

TagVal(t) == CHOOSE i \in 1..Len(TagNames) : TagNames[i] = t

MAX_VAL == TagVal("And")

\* ExprTag::from_u8: a zero or out-of-range value panics
from_u8(x) == IF x = 0 \/ x > MAX_VAL THEN "PANIC" ELSE TagNames[x]

encode(flags, tag) == BitOr32(flags, u32(TagVal(tag)))

-----------------------------------------------------------------------------
(* Expr: records [tag, ...fields of the variant] *)

EmptyString == [tag |-> "EmptyString"]
NoMatch == [tag |-> "NoMatch"]
Byte(b) == [tag |-> "Byte", b |-> b]
ByteSet(s) == [tag |-> "ByteSet", s |-> s]
RemainderIs(d, r) == [tag |-> "RemainderIs", d |-> d, r |-> r]
Lookahead(f, e, n) == [tag |-> "Lookahead", flags |-> f, e |-> e, n |-> n]
Not(f, e) == [tag |-> "Not", flags |-> f, e |-> e]
Repeat(f, e, a, b) == [tag |-> "Repeat", flags |-> f, e |-> e, min |-> a, max |-> b]
Nary(tag, f, es) == [tag |-> tag, flags |-> f, es |-> es]
Panic == [tag |-> "PANIC"]

NaryTags == {"Concat", "Or", "And"}
UnaryTags == {"Lookahead", "Not", "Repeat"}

\* Expr::args
args(e) ==
    IF e.tag \in NaryTags THEN e.es
    ELSE IF e.tag \in UnaryTags THEN <<e.e>>
    ELSE <<>>

\* Expr::get_flags
Expr_get_flags(e) ==
    CASE e.tag = "EmptyString" -> POSITIVE_NULLABLE
      [] e.tag = "RemainderIs" -> IF e.r = u32(0) THEN POSITIVE_NULLABLE ELSE POSITIVE
      [] e.tag = "NoMatch" -> ZERO
      [] e.tag \in {"Byte", "ByteSet"} -> POSITIVE
      [] OTHER -> e.flags

\* Expr::from_slice
from_slice(s) ==
    LET flags == BitAnd32(s[1], NotFF)
        tag == from_u8(as_u8(BitAnd32(s[1], LowFF)))
    IN  CASE tag = "EmptyString" -> EmptyString
          [] tag = "NoMatch" -> NoMatch
          [] tag = "Byte" -> Byte(as_u8(s[2]))
          [] tag = "ByteSet" -> ByteSet(Tail(s))
          [] tag = "Lookahead" ->
                IF ExprRef_is_valid(s[2]) THEN Lookahead(flags, s[2], s[3]) ELSE Panic
          [] tag = "Not" ->
                IF ExprRef_is_valid(s[2]) THEN Not(flags, s[2]) ELSE Panic
          [] tag = "RemainderIs" -> RemainderIs(s[2], s[3])
          [] tag = "Repeat" ->
                IF ExprRef_is_valid(s[2]) THEN Repeat(flags, s[2], s[3], s[4]) ELSE Panic
          [] tag \in NaryTags -> Nary(tag, flags, Tail(s))
          [] OTHER -> Panic

\* variant: the two trailing words of RemainderIs and of Repeat exchanged
serialize_swapped(e) ==
    LET flags == Expr_get_flags(e)
    IN  CASE e.tag = "EmptyString" -> <<encode(flags, "EmptyString")>>
          [] e.tag = "NoMatch" -> <<encode(flags, "NoMatch")>>
          [] e.tag = "RemainderIs" -> <<encode(flags, "RemainderIs"), e.r, e.d>>
          [] e.tag = "Byte" -> <<encode(flags, "Byte"), u32(e.b)>>
          [] e.tag = "ByteSet" -> <<encode(flags, "ByteSet")>> \o e.s
          [] e.tag = "Lookahead" -> <<encode(e.flags, "Lookahead"), e.e, e.n>>
          [] e.tag = "Not" -> <<encode(e.flags, "Not"), e.e>>
          [] e.tag = "Repeat" -> <<encode(e.flags, "Repeat"), e.e, e.max, e.min>>
          [] e.tag \in NaryTags -> <<encode(e.flags, e.tag)>> \o e.es

\* variant: Not encoded without its flags
serialize_noflags(e) ==
    LET flags == Expr_get_flags(e)
    IN  CASE e.tag = "EmptyString" -> <<encode(flags, "EmptyString")>>
          [] e.tag = "NoMatch" -> <<encode(flags, "NoMatch")>>
          [] e.tag = "RemainderIs" -> <<encode(flags, "RemainderIs"), e.d, e.r>>
          [] e.tag = "Byte" -> <<encode(flags, "Byte"), u32(e.b)>>
          [] e.tag = "ByteSet" -> <<encode(flags, "ByteSet")>> \o e.s
          [] e.tag = "Lookahead" -> <<encode(e.flags, "Lookahead"), e.e, e.n>>
          [] e.tag = "Not" -> <<encode(ZERO, "Not"), e.e>>
          [] e.tag = "Repeat" -> <<encode(e.flags, "Repeat"), e.e, e.min, e.max>>
          [] e.tag \in NaryTags -> <<encode(e.flags, e.tag)>> \o e.es

\* Expr::serialize: the words pushed onto the insertion in progress
serialize(e) ==
    LET flags == Expr_get_flags(e)
    IN  CASE e.tag = "EmptyString" -> <<encode(flags, "EmptyString")>>
          [] e.tag = "NoMatch" -> <<encode(flags, "NoMatch")>>
          [] e.tag = "RemainderIs" -> <<encode(flags, "RemainderIs"), e.d, e.r>>
          [] e.tag = "Byte" -> <<encode(flags, "Byte"), u32(e.b)>>
          [] e.tag = "ByteSet" -> <<encode(flags, "ByteSet")>> \o e.s
          [] e.tag = "Lookahead" -> <<encode(e.flags, "Lookahead"), e.e, e.n>>
          [] e.tag = "Not" -> <<encode(e.flags, "Not"), e.e>>
          [] e.tag = "Repeat" -> <<encode(e.flags, "Repeat"), e.e, e.min, e.max>>
          [] e.tag \in NaryTags -> <<encode(e.flags, e.tag)>> \o e.es

-----------------------------------------------------------------------------
(* VecHashCons (crate::hashcons): the content-addressed word store *)

\* start_insert .. push .. finish_insert: the identifier of the sequence
\* pushed, reusing the identifier of an identical stored sequence
finish_insert(store, buf) ==
    let(<<store, buf>>, LAMBDA a :
        IF \E i \in 1..Len(a[1]) : a[1][i] = a[2]
        THEN [exprs |-> a[1],
              id |-> (CHOOSE i \in 1..Len(a[1]) : a[1][i] = a[2]) - 1]
        ELSE [exprs |-> Append(a[1], a[2]), id |-> Len(a[1])])

\* VecHashCons::insert
insert(store, buf) == finish_insert(store, buf)

\* VecHashCons::get
store_get(store, n) == store[n + 1]

\* VecHashCons::is_valid
store_is_valid(store, n) == n < Len(store)

-----------------------------------------------------------------------------
(* ExprSet: construction and queries *)

\* ExprSet::mk
mk(store, e) ==
    let(finish_insert(store, serialize(e)), LAMBDA r :
        [exprs |-> r.exprs, id |-> ExprRef(r.id)])

\* ExprSet::get
get(store, id) == from_slice(store_get(store, as_usize(id)))

\* ExprSet::is_valid
is_valid(store, id) == ExprRef_is_valid(id) /\ store_is_valid(store, as_usize(id))

\* ExprSet::get_flags
get_flags(store, id) == BitAnd32(store_get(store, as_usize(id))[1], NotFF)

\* ExprSet::get_tag
get_tag(store, id) == from_u8(as_u8(BitAnd32(store_get(store, as_usize(id))[1], LowFF)))

\* ExprSet::get_args
get_args(store, id) ==
    LET s == store_get(store, as_usize(id))
        tag == from_u8(as_u8(BitAnd32(s[1], LowFF)))
    IN  IF tag \in NaryTags THEN Tail(s)
        ELSE IF tag \in UnaryTags THEN <<s[2]>>
        ELSE <<>>

\* ExprSet::is_nullable / is_positive
set_is_nullable(store, id) == is_nullable(get_flags(store, id))
set_is_positive(store, id) == is_positive(get_flags(store, id))

\* ExprSet::mk_repeat (crate::simpl), as ExprSet::new uses it
mk_repeat_node(store, e, min, max) ==
    Repeat(from_nullable_positive(min = u32(0) \/ set_is_nullable(store, e),
                                  set_is_positive(store, e)),
           e, min, max)

mk_repeat(store, e, min, max) == mk(store, mk_repeat_node(store, e, min, max))

Some(v) == <<v>>
None == <<>>

\* ExprSet::lookahead_len_inner
lookahead_len_inner(store, e) ==
    let(get(store, e), LAMBDA n :
        IF n.tag = "Lookahead" /\ n.e = EMPTY_STRING THEN Some(n.n) ELSE None)

\* Iterator::min / Iterator::max over u32 values, None on an empty set
MinOf(S) ==
    let(S, LAMBDA T :
        IF T = {} THEN None ELSE Some(CHOOSE x \in T : \A y \in T : ~U32Less(y, x)))
MaxOf(S) ==
    let(S, LAMBDA T :
        IF T = {} THEN None ELSE Some(CHOOSE x \in T : \A y \in T : ~U32Less(x, y)))

\* ExprSet::lookahead_len
lookahead_len(store, e) ==
    let(get(store, e), LAMBDA n :
        IF n.tag = "Or"
        THEN MinOf({lookahead_len_inner(store, n.es[i])[1] :
                      i \in {j \in 1..Len(n.es) : lookahead_len_inner(store, n.es[j]) # None}})
        ELSE lookahead_len_inner(store, e))

\* variant: only lookaheads of the empty string count
possible_lookahead_len_inner_empty_only(store, e) ==
    let(get(store, e), LAMBDA n :
        IF n.tag = "Lookahead" /\ n.e = EMPTY_STRING THEN n.n ELSE u32(0))

\* ExprSet::possible_lookahead_len_inner
possible_lookahead_len_inner(store, e) ==
    let(get(store, e), LAMBDA n :
        IF n.tag = "Lookahead" THEN n.n ELSE u32(0))

\* ExprSet::possible_lookahead_len; unwrap_or(0) on the maximum
possible_lookahead_len(store, e) ==
    let(get(store, e), LAMBDA n :
        IF n.tag = "Or"
        THEN let(MaxOf({possible_lookahead_len_inner(store, n.es[i]) : i \in 1..Len(n.es)}),
                 LAMBDA m : IF m = None THEN u32(0) ELSE m[1])
        ELSE possible_lookahead_len_inner(store, e))

\* variant: NoMatch inserted before EmptyString
ExprSet_new_swapped(sz) ==
    let(insert(<<>>, <<>>), LAMBDA s0 :
        IF s0.id # 0
        THEN [exprs |-> s0.exprs, ids |-> <<s0.id>>, made |-> {}, ok |-> FALSE]
        ELSE
    let(mk(s0.exprs, NoMatch), LAMBDA m2 :
    let(mk(m2.exprs, EmptyString), LAMBDA m1 :
    let(ByteSet([i \in 1..((sz + 31) \div 32) |-> U32_MAX]), LAMBDA n3 :
    let(mk(m1.exprs, n3), LAMBDA m3 :
    let(mk_repeat(m3.exprs, ANY_BYTE, u32(0), U32_MAX), LAMBDA m4 :
    let(mk_repeat(m4.exprs, ANY_BYTE, u32(1), U32_MAX), LAMBDA m5 :
        [exprs |-> m5.exprs,
         ids |-> <<s0.id, m1.id, m2.id, m3.id, m4.id, m5.id>>,
         made |-> {<<EmptyString, m1.id>>, <<NoMatch, m2.id>>, <<n3, m3.id>>,
                   <<mk_repeat_node(m3.exprs, ANY_BYTE, u32(0), U32_MAX), m4.id>>,
                   <<mk_repeat_node(m4.exprs, ANY_BYTE, u32(1), U32_MAX), m5.id>>},
         ok |-> /\ m1.id = EMPTY_STRING
                /\ m2.id = NO_MATCH
                /\ m3.id = ANY_BYTE
                /\ m4.id = ANY_BYTE_STRING
                /\ m5.id = NON_EMPTY_BYTE_STRING])))))))

\* ExprSet::new: the store after the inserts, the identifiers obtained, the
\* <<node, identifier>> pairs of its mk calls and whether the assertions hold
ExprSet_new(sz) ==
    let(insert(<<>>, <<>>), LAMBDA s0 :
        IF s0.id # 0
        THEN [exprs |-> s0.exprs, ids |-> <<s0.id>>, made |-> {}, ok |-> FALSE]
        ELSE
    let(mk(s0.exprs, EmptyString), LAMBDA m1 :
    let(mk(m1.exprs, NoMatch), LAMBDA m2 :
    let(ByteSet([i \in 1..((sz + 31) \div 32) |-> U32_MAX]), LAMBDA n3 :
    let(mk(m2.exprs, n3), LAMBDA m3 :
    let(mk_repeat(m3.exprs, ANY_BYTE, u32(0), U32_MAX), LAMBDA m4 :
    let(mk_repeat(m4.exprs, ANY_BYTE, u32(1), U32_MAX), LAMBDA m5 :
        [exprs |-> m5.exprs,
         ids |-> <<s0.id, m1.id, m2.id, m3.id, m4.id, m5.id>>,
         made |-> {<<EmptyString, m1.id>>, <<NoMatch, m2.id>>, <<n3, m3.id>>,
                   <<mk_repeat_node(m3.exprs, ANY_BYTE, u32(0), U32_MAX), m4.id>>,
                   <<mk_repeat_node(m4.exprs, ANY_BYTE, u32(1), U32_MAX), m5.id>>},
         ok |-> /\ m1.id = EMPTY_STRING
                /\ m2.id = NO_MATCH
                /\ m3.id = ANY_BYTE
                /\ m4.id = ANY_BYTE_STRING
                /\ m5.id = NON_EMPTY_BYTE_STRING])))))))

-----------------------------------------------------------------------------
(* Bounds and input sets *)

MaxMk == 2
MaxLook == 3
MaxCalls == 2

AlphabetSizes == {0, 33}
ByteInputs == {0, 255}
FlagInputs == {from_nullable_positive(n, p) : n \in BOOLEAN, p \in BOOLEAN}

NoCall == [node |-> Panic, id |-> INVALID]
NoQuery == [id |-> INVALID]
NoValue == <<"none">>
NoArg == [root |-> INVALID]
NoNb == [op |-> "none"]

\* the nodes a construction call is tried with; children are stored identifiers
MkInputs(store, sz) ==
    LET top == ExprRef(Len(store) - 1)
        words == (sz + 31) \div 32
    IN  {EmptyString, NoMatch}
        \cup {Byte(b) : b \in ByteInputs}
        \cup {ByteSet([i \in 1..words |-> w]) : w \in {u32(0), U32_MAX}}
        \cup {RemainderIs(u32(3), u32(0)), RemainderIs(u32(0), u32(3))}
        \cup {Lookahead(f, EMPTY_STRING, u32(3)) : f \in {ZERO, POSITIVE_NULLABLE}}
        \cup {Lookahead(ZERO, EMPTY_STRING, u32(5))}
        \cup {Not(f, ANY_BYTE) : f \in FlagInputs}
        \cup {Not(ZERO, top)}
        \cup {Repeat(f, ANY_BYTE, u32(0), U32_MAX) : f \in {ZERO, POSITIVE_NULLABLE}}
        \cup {Repeat(ZERO, ANY_BYTE, u32(0), u32(1)),
              Repeat(ZERO, ANY_BYTE, u32(1), u32(0))}
        \cup {Nary("Concat", f, <<EMPTY_STRING, ANY_BYTE>>) : f \in FlagInputs}
        \cup {Nary(t, ZERO, <<EMPTY_STRING, ANY_BYTE>>) : t \in {"Or", "And"}}
        \cup {Nary("Concat", ZERO, <<ANY_BYTE, EMPTY_STRING>>),
              Nary("Concat", ZERO, <<EMPTY_STRING, ANY_BYTE, top>>)}

-----------------------------------------------------------------------------
(* Construction and queries as a state machine *)

MapIdle ==
    /\ m_pc = "idle" /\ m_arg = NoArg /\ todo = <<>> /\ cache = <<>>
    /\ mapped = <<>> /\ log = <<>> /\ sched = {} /\ m_ret = NoValue /\ calls = 0

Init ==
    /\ alphabet_size \in AlphabetSizes
    /\ exprs = <<>>
    /\ pc = "new"
    /\ new_ids = <<>>
    /\ made = {}
    /\ last = NoCall
    /\ q = NoQuery
    /\ MapIdle
    /\ nb = NoNb

\* ExprSet::new
New ==
    /\ pc = "new"
    /\ \E r \in {ExprSet_new(alphabet_size)} :
           /\ exprs' = r.exprs
           /\ new_ids' = r.ids
           /\ made' = r.made
           /\ pc' = IF r.ok THEN "ready" ELSE "panicked"
    /\ UNCHANGED <<alphabet_size, last, q, map_vars, nb>>

\* the decoding queries of ExprSet on identifier id
Queries(store, id) ==
    [id |-> id,
     node |-> get(store, id),
     tag |-> get_tag(store, id),
     flags |-> get_flags(store, id),
     args |-> get_args(store, id)]

\* the lookahead-length queries of ExprSet on identifier id
LookQueries(store, id) ==
    [id |-> id,
     tag |-> get_tag(store, id),
     la |-> lookahead_len(store, id),
     pla |-> possible_lookahead_len(store, id)]

\* one call of ExprSet::mk on node e, followed by queries on the identifier
\* it returned
MkCall(e, room, look) ==
    \E r \in {mk(exprs, e)} :
        /\ Len(r.exprs) <= 6 + room
        /\ exprs' = r.exprs
        /\ made' = made \cup {<<e, r.id>>}
        /\ last' = [node |-> e, id |-> r.id]
        /\ q' = IF look THEN LookQueries(r.exprs, r.id) ELSE Queries(r.exprs, r.id)
        /\ UNCHANGED <<alphabet_size, pc, new_ids, map_vars, nb>>

Mk ==
    /\ pc = "ready"
    /\ \E e \in MkInputs(exprs, alphabet_size) : MkCall(e, MaxMk, FALSE)

Next == New \/ Mk

Spec == Init /\ [][Next]_vars

-----------------------------------------------------------------------------
(* Lookahead nodes and alternations over them *)

\* stored identifiers offered as alternation branches
Branches(store) == {ANY_BYTE} \cup {ExprRef(i) : i \in 6..(Len(store) - 1)}

InitLook ==
    /\ alphabet_size = 33
    /\ exprs = <<>>
    /\ pc = "new"
    /\ new_ids = <<>>
    /\ made = {}
    /\ last = NoCall
    /\ q = NoQuery
    /\ MapIdle
    /\ nb = NoNb

MkLookahead ==
    /\ pc = "ready"
    /\ \E p \in {<<EMPTY_STRING, 3>>, <<EMPTY_STRING, 5>>, <<ANY_BYTE, 3>>, <<ANY_BYTE, 5>>} :
          MkCall(Lookahead(from_nullable_positive(set_is_nullable(exprs, p[1]), TRUE),
                           p[1], u32(p[2])), MaxLook, TRUE)

\* alternations (and, for contrast, a concatenation) over stored branches
MkOr ==
    /\ pc = "ready"
    /\ LET top == ExprRef(Len(exprs) - 1)
       IN  \/ \E a \in Branches(exprs), b \in Branches(exprs) :
                 /\ ~U32Less(b, a)
                 /\ MkCall(Nary("Or", POSITIVE, <<a, b>>), MaxLook, TRUE)
           \/ \E a \in Branches(exprs) :
                 MkCall(Nary("Or", POSITIVE, <<top, a, top>>), MaxLook, TRUE)
           \/ MkCall(Nary("Concat", POSITIVE, <<top, top>>), MaxLook, TRUE)

NextLook == New \/ MkLookahead \/ MkOr

SpecLook == InitLook /\ [][NextLook]_vars

-----------------------------------------------------------------------------
(* ExprSet::map and ExprSet::simple_map *)

KeyModes == {"id", "mod2"}

\* the caller's mk_key: the identifier itself, or a projection that merges
\* identifiers
mk_key(mode, e) == IF mode = "id" THEN e ELSE as_usize(e) % 2

\* the caller's process: the identity transform
process(r, kids) == r

contains_key(c, k) == k \in DOMAIN c

cache_insert(c, k, v) == [x \in DOMAIN c \cup {k} |-> IF x = k THEN v ELSE c[x]]

\* variant: the loop over the children is never left early
brk_never(store, is_concat, a) == FALSE

\* let brk = is_concat && !self.is_nullable(a)
brk(store, is_concat, a) == is_concat /\ ~set_is_nullable(store, a)

\* variant: results are pushed at the front
push_mapped_front(buf, v) == <<v>> \o buf

\* mapped.push on a cache hit
push_mapped(buf, v) == Append(buf, v)

\* one iteration of `for a in eargs`, at position st.i: st.mapped is the
\* scratch buffer, st.pushed the positions of the children pushed onto todo
for_body(c, mode, eargs, st) ==
    IF contains_key(c, mk_key(mode, eargs[st.i]))
    THEN [i |-> st.i + 1,
          mapped |-> push_mapped(st.mapped, c[mk_key(mode, eargs[st.i])]),
          pushed |-> st.pushed]
    ELSE [i |-> st.i + 1, mapped |-> st.mapped, pushed |-> Append(st.pushed, st.i)]

\* the loop `for a in eargs` from position st.i on, left early on brk
RECURSIVE for_eargs(_, _, _, _, _, _)
for_eargs(store, c, mode, is_concat, eargs, st) ==
    IF st.i > Len(eargs) THEN st
    ELSE let(for_body(c, mode, eargs, st), LAMBDA st2 :
             IF brk(store, is_concat, eargs[st.i]) THEN st2
             ELSE for_eargs(store, c, mode, is_concat, eargs, st2))

\* one pass over the children of r: mapped.clear(), then the loop
visit(store, c, mode, prune, r) ==
    let(get(store, r), LAMBDA e :
        let(args(e), LAMBDA eargs :
            for_eargs(store, c, mode, prune /\ e.tag = "Concat", eargs,
                      [i |-> 1, mapped |-> <<>>, pushed |-> <<>>])))

Pop(s) == SubSeq(s, 1, Len(s) - 1)

\* variant: the cache is not consulted for the top of todo
top_is_cached_never(c, mode, r) == FALSE

\* if cache.contains_key(&idx), for the top r of todo
top_is_cached(c, mode, r) == contains_key(c, mk_key(mode, r))

\* entry of map: the root's key is cached, return the cached value
MapCached(r, mode, prune, c0, n) ==
    /\ contains_key(c0, mk_key(mode, r))
    /\ m_pc' = "done"
    /\ m_ret' = c0[mk_key(mode, r)]
    /\ todo' = <<>>
    /\ m_arg' = [root |-> r, key |-> mode, prune |-> prune, pre |-> DOMAIN c0]
    /\ cache' = c0
    /\ calls' = n
    /\ mapped' = <<>> /\ log' = <<>> /\ sched' = {}
    /\ UNCHANGED <<cons_vars, nb>>

\* entry of map: todo = vec![r]
MapStart(r, mode, prune, c0, n) ==
    /\ ~contains_key(c0, mk_key(mode, r))
    /\ m_pc' = "loop"
    /\ m_ret' = NoValue
    /\ todo' = <<r>>
    /\ m_arg' = [root |-> r, key |-> mode, prune |-> prune, pre |-> DOMAIN c0]
    /\ cache' = c0
    /\ calls' = n
    /\ mapped' = <<>> /\ log' = <<>> /\ sched' = {}
    /\ UNCHANGED <<cons_vars, nb>>

\* ExprSet::simple_map: a new cache, the identity key, no pruning
SimpleMap ==
    /\ pc = "ready"
    /\ m_pc \in {"idle", "done"}
    /\ \E r \in {ExprRef(i) : i \in 1..(Len(exprs) - 1)} :
          MapStart(r, "id", FALSE, <<>>, 1)

\* ExprSet::map called with an empty cache
MapFresh ==
    /\ pc = "ready"
    /\ m_pc \in {"idle", "done"}
    /\ \E r \in {ExprRef(i) : i \in 1..(Len(exprs) - 1)},
          mode \in KeyModes, prune \in BOOLEAN :
          MapStart(r, mode, prune, <<>>, 1)

\* ExprSet::map called again with the cache of the previous calls
MapAgain ==
    /\ pc = "ready"
    /\ m_pc = "done"
    /\ calls < MaxCalls
    /\ \E r \in {ExprRef(i) : i \in 1..(Len(exprs) - 1)} :
          \/ MapCached(r, m_arg.key, m_arg.prune, cache, calls + 1)
          \/ MapStart(r, m_arg.key, m_arg.prune, cache, calls + 1)

\* variant: the cached top of todo is not popped
MapSkip_nopop ==
    /\ m_pc = "loop"
    /\ todo # <<>>
    /\ top_is_cached(cache, m_arg.key, todo[Len(todo)])
    /\ UNCHANGED vars

\* loop iteration: the key of the top of todo is cached; pop and continue
MapSkip ==
    /\ m_pc = "loop"
    /\ todo # <<>>
    /\ top_is_cached(cache, m_arg.key, todo[Len(todo)])
    /\ todo' = Pop(todo)
    /\ UNCHANGED <<cons_vars, m_pc, m_arg, cache, mapped, log, sched, m_ret, calls, nb>>

\* loop iteration: some child is not cached; push it and retry children first
MapDescend ==
    /\ m_pc = "loop"
    /\ todo # <<>>
    /\ LET r == todo[Len(todo)]
       IN  /\ ~top_is_cached(cache, m_arg.key, r)
           /\ \E st \in {visit(exprs, cache, m_arg.key, m_arg.prune, r)} :
                 /\ st.pushed # <<>>
                 /\ mapped' = st.mapped
                 /\ todo' = todo \o [j \in 1..Len(st.pushed) |->
                                        args(get(exprs, r))[st.pushed[j]]]
                 /\ sched' = sched \cup {<<r, st.pushed[j]>> : j \in 1..Len(st.pushed)}
    /\ UNCHANGED <<cons_vars, m_pc, m_arg, cache, log, m_ret, calls, nb>>

\* loop iteration: every child visited is cached; pop r, run process and
\* insert its result
MapProcess ==
    /\ m_pc = "loop"
    /\ todo # <<>>
    /\ LET r == todo[Len(todo)]
           idx == mk_key(m_arg.key, r)
       IN  /\ ~top_is_cached(cache, m_arg.key, r)
           /\ \E st \in {visit(exprs, cache, m_arg.key, m_arg.prune, r)} :
                 /\ st.pushed = <<>>
                 /\ mapped' = st.mapped
                 /\ todo' = Pop(todo)
                 /\ log' = Append(log, [r |-> r, mapped |-> st.mapped, cache |-> cache])
                 /\ cache' = cache_insert(cache, idx, process(r, st.mapped))
    /\ UNCHANGED <<cons_vars, m_pc, m_arg, sched, m_ret, calls, nb>>

\* todo is empty: return cache[&mk_key(r)].clone(), which panics on a missing key
MapReturn ==
    /\ m_pc = "loop"
    /\ todo = <<>>
    /\ m_pc' = "done"
    /\ m_ret' = IF contains_key(cache, mk_key(m_arg.key, m_arg.root))
                THEN cache[mk_key(m_arg.key, m_arg.root)]
                ELSE <<"panic">>
    /\ UNCHANGED <<cons_vars, m_arg, todo, cache, mapped, log, sched, calls, nb>>

MapLoop == MapSkip \/ MapDescend \/ MapProcess \/ MapReturn

\* expression graphs the traversal is run on, each built by construction
\* calls on a new expression set; identifiers 6.. are assigned in order
GraphA ==
    <<Byte(0),
      Nary("Concat", POSITIVE, <<ExprRef(4), ExprRef(6), ExprRef(5)>>),
      Nary("Or", POSITIVE, <<ExprRef(7), ExprRef(5)>>),
      Nary("Concat", POSITIVE_NULLABLE, <<ExprRef(4), ExprRef(1), ExprRef(4)>>),
      Nary("And", POSITIVE, <<ExprRef(8), ExprRef(9), ExprRef(8)>>)>>

GraphB ==
    <<Not(POSITIVE_NULLABLE, ExprRef(3)),
      Nary("Concat", POSITIVE, <<ExprRef(3), ExprRef(6)>>),
      Nary("Concat", POSITIVE, <<ExprRef(6), ExprRef(7), ExprRef(4)>>),
      Lookahead(ZERO, ExprRef(8), u32(2)),
      Repeat(POSITIVE_NULLABLE, ExprRef(9), u32(0), U32_MAX)>>

GraphC ==
    <<Byte(255),
      Not(POSITIVE_NULLABLE, ExprRef(6)),
      Repeat(POSITIVE_NULLABLE, ExprRef(6), u32(0), u32(1)),
      Nary("Or", POSITIVE_NULLABLE, <<ExprRef(7), ExprRef(8)>>),
      Nary("Concat", POSITIVE_NULLABLE, <<ExprRef(9), ExprRef(9)>>)>>

Graphs == {GraphA, GraphB, GraphC}

RECURSIVE MkAll(_, _, _)
MkAll(st, nodes, i) ==
    IF i > Len(nodes) THEN st
    ELSE let(mk(st.exprs, nodes[i]), LAMBDA r :
             let([exprs |-> r.exprs, made |-> st.made \cup {<<nodes[i], r.id>>}],
                 LAMBDA st2 : MkAll(st2, nodes, i + 1)))

Build(nodes) ==
    let(ExprSet_new(256), LAMBDA r :
        let([exprs |-> r.exprs, made |-> r.made], LAMBDA st : MkAll(st, nodes, 1)))

InitMap ==
    /\ alphabet_size = 256
    /\ pc = "ready"
    /\ new_ids = ExprSet_new(256).ids
    /\ \E g \in Graphs : \E b \in {Build(g)} : exprs = b.exprs /\ made = b.made
    /\ last = NoCall
    /\ q = NoQuery
    /\ MapIdle
    /\ nb = NoNb

NextMap == SimpleMap \/ MapFresh \/ MapAgain \/ MapLoop

SpecMap == InitMap /\ [][NextMap]_vars /\ WF_vars(MapLoop)

-----------------------------------------------------------------------------
(* Properties of construction and queries *)

Stored == {ExprRef(i) : i \in 1..(Len(exprs) - 1)}

\* C1: canonicalization.  Over all calls of ExprSet::mk made so far, two calls
\* given the same node returned the same identifier, and two calls given
\* different nodes returned different identifiers.
C1_Canonical ==
    \A c \in made, d \in made : (c[1] = d[1]) <=> (c[2] = d[2])

\* a node constructed, another node constructed after it, and the first
\* constructed again
C1_Witness ==
    /\ pc = "ready"
    /\ as_usize(last.id) > 5
    /\ as_usize(last.id) < Len(exprs) - 1

\* C2: reserved identifiers.  ExprSet::new never fails an assertion; once it
\* has run, identifier 0 is the invalid one and 1..5 denote empty-string,
\* no-match, the all-ones byte-set, repeat(any-byte, 0, unbounded) and
\* repeat(any-byte, 1, unbounded), whatever was constructed since.
C2_Reserved ==
    /\ pc # "panicked"
    /\ pc = "ready" =>
        /\ new_ids = <<0, u32(1), u32(2), u32(3), u32(4), u32(5)>>
        /\ ~is_valid(exprs, INVALID)
        /\ exprs[1] = <<>>
        /\ get(exprs, u32(1)) = [tag |-> "EmptyString"]
        /\ get(exprs, u32(2)) = [tag |-> "NoMatch"]
        /\ get(exprs, u32(3)) =
              [tag |-> "ByteSet",
               s |-> [i \in 1..((alphabet_size + 31) \div 32) |-> <<65535, 65535>>]]
        /\ LET a == get(exprs, u32(4))
           IN  /\ a.tag = "Repeat" /\ a.e = u32(3)
               /\ a.min = <<0, 0>> /\ a.max = <<65535, 65535>>
        /\ LET b == get(exprs, u32(5))
           IN  /\ b.tag = "Repeat" /\ b.e = u32(3)
               /\ b.min = <<0, 1>> /\ b.max = <<65535, 65535>>

\* the expression set after ExprSet::new and two further fresh nodes
C2_Witness == pc = "ready" /\ Len(exprs) = 8

\* the flags a node is constructed with: those the construction layer
\* derives for a leaf, those the caller passed otherwise
ConstructedFlags(n) ==
    CASE n.tag = "EmptyString" -> <<0, 768>>
      [] n.tag = "NoMatch" -> <<0, 0>>
      [] n.tag \in {"Byte", "ByteSet"} -> <<0, 512>>
      [] n.tag = "RemainderIs" -> IF n.r = <<0, 0>> THEN <<0, 768>> ELSE <<0, 512>>
      [] OTHER -> n.flags

\* C6: encoding round trip.  Decoding the identifier a construction returned
\* gives back the node it was given; get_tag and get_flags return its tag and
\* flags; in word 0 the tag lies in the low byte and the flags above it.
C6_RoundTrip ==
    q # NoQuery =>
        /\ q.id = last.id
        /\ q.node = last.node
        /\ q.tag = last.node.tag
        /\ q.flags = ConstructedFlags(last.node)
        /\ q.args = args(last.node)
        /\ LET w == exprs[as_usize(q.id) + 1][1]
           IN  /\ w[1] = q.flags[1]
               /\ w[2] % 256 = TagVal(q.tag)
               /\ w[2] - (w[2] % 256) = q.flags[2]
               /\ q.flags[2] % 256 = 0

\* a repeat with min 0 and max unbounded, freshly constructed and decoded
C6_Witness ==
    /\ q # NoQuery
    /\ as_usize(q.id) > 5
    /\ q.tag = "Repeat"
    /\ q.node.min = <<0, 0>>
    /\ q.node.max = <<65535, 65535>>

\* C8: nullable implies positive, for every stored node.
C8_NullablePositive ==
    \A id \in Stored :
        is_nullable(get_flags(exprs, id)) => is_positive(get_flags(exprs, id))

\* a composite node constructed with nullable flags
C8_Witness ==
    /\ last # NoCall
    /\ last.node.tag \in NaryTags \cup UnaryTags
    /\ as_usize(last.id) > 5
    /\ is_nullable(get_flags(exprs, last.id))

\* the n of node id when it is a lookahead node (of the empty string, when
\* only_empty), as a set of at most one element
LookaheadN(id, only_empty) ==
    LET n == get(exprs, id)
    IN  IF n.tag = "Lookahead" /\ (~only_empty \/ n.e = <<0, 1>>) THEN {n.n} ELSE {}

\* the lengths of the qualifying nodes of node id
Qualifying(id, only_empty) ==
    LET n == get(exprs, id)
    IN  IF n.tag = "Or"
        THEN UNION {LookaheadN(n.es[i], only_empty) : i \in 1..Len(n.es)}
        ELSE LookaheadN(id, only_empty)

IsLeast(x, S) == x \in S /\ \A y \in S : ~U32Less(y, x)
IsGreatest(x, S) == x \in S /\ \A y \in S : ~U32Less(x, y)

LookaheadLenIs(la, S) == IF S = {} THEN la = <<>> ELSE Len(la) = 1 /\ IsLeast(la[1], S)
PossibleLenIs(pla, S) == IF S = {} THEN pla = <<0, 0>> ELSE IsGreatest(pla, S)

\* C9 as stated: lookahead_len is the least and possible_lookahead_len the
\* greatest length over the same qualifying nodes (lookaheads of the empty
\* string), absent resp. 0 when there is none.
C9_AsStated ==
    q # NoQuery =>
        /\ LookaheadLenIs(q.la, Qualifying(q.id, TRUE))
        /\ PossibleLenIs(q.pla, Qualifying(q.id, TRUE))

\* C9 amended: possible_lookahead_len ranges over lookahead nodes of any
\* inner expression; lookahead_len over lookaheads of the empty string.
C9_Lookahead ==
    q # NoQuery =>
        /\ LookaheadLenIs(q.la, Qualifying(q.id, TRUE))
        /\ PossibleLenIs(q.pla, Qualifying(q.id, FALSE))

\* an alternation with branches lookahead(empty, 3) and lookahead(any-byte, 5)
C9_Witness ==
    /\ q # NoQuery
    /\ q.tag = "Or"
    /\ Qualifying(q.id, TRUE) = {<<0, 3>>}
    /\ Qualifying(q.id, FALSE) = {<<0, 3>>, <<0, 5>>}

-----------------------------------------------------------------------------
(* Properties of the generic map *)

Key(e) == mk_key(m_arg.key, e)

Children(id) == args(get(exprs, id))

RECURSIVE ReachFrom(_)
ReachFrom(S) ==
    LET N == S \cup UNION {{Children(n)[i] : i \in 1..Len(Children(n))} : n \in S}
    IN  IF N = S THEN S ELSE ReachFrom(N)

\* the nodes reachable from the root of the current call
Reach == ReachFrom({m_arg.root})

Invocations(n) == {i \in 1..Len(log) : log[i].r = n}

\* C3: during one call the transform is invoked at most once per cache key
\* and never for a key cached when the call started; with the identity key,
\* no pruning and an empty cache, exactly once for every node reachable from
\* the root, shared or not.
C3_OncePerKey ==
    /\ \A i \in 1..Len(log), j \in 1..Len(log) :
          i # j => Key(log[i].r) # Key(log[j].r)
    /\ \A i \in 1..Len(log) : Key(log[i].r) \notin m_arg.pre
    /\ (m_pc = "done" /\ m_arg.key = "id" /\ ~m_arg.prune /\ m_arg.pre = {}) =>
          \A n \in Reach : Cardinality(Invocations(n)) = 1

\* a finished identity-key call over a graph in which the root has a child
\* listed twice or a node has two parents
C3_Witness ==
    /\ m_pc = "done" /\ m_arg.key = "id" /\ ~m_arg.prune /\ m_arg.pre = {}
    /\ \E n \in Reach :
          \/ \E a \in Reach, b \in Reach :
                /\ a # b
                /\ \E i \in 1..Len(Children(a)) : Children(a)[i] = n
                /\ \E i \in 1..Len(Children(b)) : Children(b)[i] = n
          \/ \E a \in Reach : \E i, j \in 1..Len(Children(a)) :
                i # j /\ Children(a)[i] = n /\ Children(a)[j] = n

\* C4: without pruning, when the transform is invoked for a node the key of
\* each child is in the cache and the children-results list is the list of
\* the cached results of the children, in child order.
C4_PostOrder ==
    \A i \in 1..Len(log) :
        ~m_arg.prune =>
            LET ch == Children(log[i].r)
            IN  /\ Len(log[i].mapped) = Len(ch)
                /\ \A j \in 1..Len(ch) :
                      /\ Key(ch[j]) \in DOMAIN log[i].cache
                      /\ log[i].mapped[j] = log[i].cache[Key(ch[j])]

\* the transform invoked, without pruning, for a node with three children
\* whose results are not all the same
C4_Witness ==
    /\ m_arg # NoArg
    /\ ~m_arg.prune
    /\ \E i \in 1..Len(log) :
          /\ Len(Children(log[i].r)) = 3
          /\ log[i].mapped[1] # log[i].mapped[2]

\* what a finished call has returned
DoneOk ==
    /\ todo = <<>>
    /\ Key(m_arg.root) \in DOMAIN cache
    /\ m_ret = cache[Key(m_arg.root)]
    /\ Key(m_arg.root) \in m_arg.pre => log = <<>>

\* C5: every call of map empties its work-list and finishes; it then returns
\* the cache entry of the root's key, without invoking the transform if that
\* key was cached at call time.
C5_Terminates ==
    /\ [](m_pc = "done" => DoneOk)
    /\ (m_pc = "loop") ~> (m_pc = "done")

\* a finished pruning call with a merging key that invoked the transform
C5_Witness ==
    /\ m_pc = "done"
    /\ m_arg.prune
    /\ m_arg.key = "mod2"
    /\ Len(log) = 2

\* the position of the first non-nullable child of node id, or the number
\* of children when all are nullable
FirstNonNullable(id) ==
    LET ch == Children(id)
        nn == {j \in 1..Len(ch) : ~is_nullable(get_flags(exprs, ch[j]))}
    IN  IF nn = {} THEN Len(ch) ELSE CHOOSE j \in nn : \A k \in nn : j <= k

\* the number of children of node id the traversal asks results for
Wanted(id) ==
    IF m_arg.prune /\ get(exprs, id).tag = "Concat"
    THEN FirstNonNullable(id) ELSE Len(Children(id))

\* C10: with pruning, the children-results list of a concatenation holds the
\* results of its children up to and including the first non-nullable one,
\* in order, and no later child is pushed on its behalf; for any other node
\* the list is complete.
C10_Pruning ==
    m_arg # NoArg /\ m_arg.prune =>
        /\ \A i \in 1..Len(log) :
              LET ch == Children(log[i].r)
                  w == Wanted(log[i].r)
              IN  /\ Len(log[i].mapped) = w
                  /\ \A j \in 1..w : log[i].mapped[j] = log[i].cache[Key(ch[j])]
                  /\ get(exprs, log[i].r).tag # "Concat" => w = Len(ch)
        /\ \A p \in sched : p[2] <= Wanted(p[1])

\* the transform invoked, with pruning, for a concatenation whose second of
\* three children is the first non-nullable one
C10_Witness ==
    /\ m_arg # NoArg /\ m_arg.prune
    /\ \E i \in 1..Len(log) :
          /\ get(exprs, log[i].r).tag = "Concat"
          /\ Len(Children(log[i].r)) = 3
          /\ Len(log[i].mapped) = 2

-----------------------------------------------------------------------------
(* NextByte and its meet and join *)

ForcedByte(b) == <<"ForcedByte", b>>
ForcedEOI == <<"ForcedEOI">>
SomeBytes == <<"SomeBytes">>
Dead == <<"Dead">>

\* variant: the left operand wins where the operands conflict
bitand_left(self, other) ==
    IF self = other THEN self
    ELSE IF self = SomeBytes THEN other
    ELSE IF other = SomeBytes THEN self
    ELSE self

\* impl BitAnd for NextByte
bitand(self, other) ==
    IF self = other THEN self
    ELSE IF self = SomeBytes THEN other
    ELSE IF other = SomeBytes THEN self
    ELSE Dead

\* impl BitOr for NextByte
bitor(self, other) ==
    IF self = other THEN self
    ELSE IF self = Dead THEN other
    ELSE IF other = Dead THEN self
    ELSE SomeBytes

\* every value of NextByte
NextBytes == {ForcedByte(b) : b \in 0..255} \cup {ForcedEOI, SomeBytes, Dead}

\* the two operands are drawn; no operation has been applied yet
InitNb ==
    /\ alphabet_size = 256
    /\ exprs = <<>>
    /\ pc = "new"
    /\ new_ids = <<>>
    /\ made = {}
    /\ last = NoCall
    /\ q = NoQuery
    /\ MapIdle
    /\ \E a \in NextBytes, b \in NextBytes : nb = [op |-> "none", a |-> a, b |-> b]

\* a & b and b & a
Meet ==
    /\ nb.op = "none"
    /\ nb' = [op |-> "and", a |-> nb.a, b |-> nb.b,
              ab |-> bitand(nb.a, nb.b), ba |-> bitand(nb.b, nb.a)]
    /\ UNCHANGED <<cons_vars, map_vars>>

\* a | b and b | a
Join ==
    /\ nb.op = "none"
    /\ nb' = [op |-> "or", a |-> nb.a, b |-> nb.b,
              ab |-> bitor(nb.a, nb.b), ba |-> bitor(nb.b, nb.a)]
    /\ UNCHANGED <<cons_vars, map_vars>>

NextNb == Meet \/ Join

SpecNb == InitNb /\ [][NextNb]_vars

\* C7: meet and join are commutative and idempotent; Dead is the identity of
\* join and absorbing for meet; SomeBytes is the identity of meet.
C7_Lattice ==
    nb.op # "none" =>
        /\ nb.ab = nb.ba
        /\ nb.a = nb.b => nb.ab = nb.a
        /\ (nb.op = "or" /\ nb.a = <<"Dead">>) => nb.ab = nb.b
        /\ (nb.op = "or" /\ nb.b = <<"Dead">>) => nb.ab = nb.a
        /\ (nb.op = "and" /\ (nb.a = <<"Dead">> \/ nb.b = <<"Dead">>)) => nb.ab = <<"Dead">>
        /\ (nb.op = "and" /\ nb.a = <<"SomeBytes">>) => nb.ab = nb.b
        /\ (nb.op = "and" /\ nb.b = <<"SomeBytes">>) => nb.ab = nb.a

\* the meet of two different forced bytes
C7_Witness ==
    /\ nb.op = "and"
    /\ nb.a = <<"ForcedByte", 0>>
    /\ nb.b = <<"ForcedByte", 255>>
    /\ nb.ab = <<"Dead">>

====
